---- MODULE Spec2Model ----
(***************************************************************************)
(* A model of umami-helper: the readiness gate that buffers events until   *)
(* the collector (window.umami) is present, the event dispatcher           *)
(* (logEvent / sanitizeEventName), the configuration merge (mergeConfig),  *)
(* the installation of the source adapters (setupEventListeners), the      *)
(* adapters' handlers (form submit, widget messages, scroll depth) and the *)
(* global singleton factory (window.UmamiHelper.init and the grace timer). *)
(*                                                                         *)
(* JavaScript values are tagged records [t |-> <typeof-like tag>, v |-> _];*)
(* a string is a sequence of one-character strings, an object a function   *)
(* from its own enumerable keys to values.                                 *)
(***************************************************************************)
EXTENDS Integers, Sequences, FiniteSets, TLC

VARIABLES
    umami,        \* window.umami is defined (the collector script has loaded)
    page,         \* the document: its forms, its anchors and its widget embeds
    now,          \* the clock read by new Date(), in milliseconds
    scrolled,     \* the scroll position, in tenths of a percent of the scrollable height
    factory,      \* window.UmamiHelper: [initialized, instance]
    graceTimer,   \* the setTimeout(..., 0) of the module is still pending
    helpers,      \* every UmamiHelper object constructed so far, in order
    tracked,      \* history: every invocation of window.umami.track
    calls,        \* history: every logEvent call, of the page and of the adapters
    initReturns,  \* history: the outcome of every UmamiHelper.init(config) call
    uncaught,     \* history: callbacks whose exception reached the hosting page
    fnArg,        \* argument of the pure function under test (SpecSanitize, SpecMerge)
    fnRes         \* its result

vars == <<umami, page, now, scrolled, factory, graceTimer, helpers, tracked,
          calls, initReturns, uncaught, fnArg, fnRes>>

(***************************************************************************)
(* JavaScript values                                                       *)
(***************************************************************************)
Undef == [t |-> "undefined"]
Null == [t |-> "null"]
Num(n) == [t |-> "number", v |-> n]
Bool(b) == [t |-> "boolean", v |-> b]
Str(s) == [t |-> "string", v |-> s]
Arr(a) == [t |-> "array", v |-> a]
Obj(f) == [t |-> "object", v |-> f]
EmptyObj == Obj([k \in {} |-> Undef])

\* the element of a set of one element; Only({e : x \in {v}}) is e with x = v,
\* where v is computed once
Only(S) == CHOOSE x \in S : TRUE

\* typeof x === 'object' (true of objects, arrays and null)
TypeofObject(x) == x.t \in {"object", "array", "null"}

\* Array.isArray(x)
IsArray(x) == x.t = "array"

\* the truthiness of x, as read by ||, && and if
Truthy(x) ==
    CASE x.t = "undefined" -> FALSE
      [] x.t = "null" -> FALSE
      [] x.t = "boolean" -> x.v
      [] x.t = "number" -> x.v # 0
      [] x.t = "string" -> x.v # <<>>
      [] OTHER -> TRUE

\* the property key of array index or string position i (0-based)
IndexKeys == <<"0", "1", "2", "3", "4", "5", "6", "7", "8", "9", "10", "11", "12", "13">>
IndexKey(i) == IndexKeys[i + 1]

\* the own enumerable properties of x, as copied by { ...x } and walked by
\* for (key in x): those of an object, the indices of an array or a string,
\* none for any other primitive
OwnProps(x) ==
    CASE x.t = "object" -> x.v
      [] x.t \in {"array", "string"} ->
            [k \in {IndexKey(i - 1) : i \in 1..Len(x.v)} |->
                LET i == CHOOSE j \in 1..Len(x.v) : IndexKey(j - 1) = k
                IN  IF x.t = "string" THEN Str(<<x.v[i]>>) ELSE x.v[i]]
      [] OTHER -> [k \in {} |-> Undef]

\* x[key]: undefined when x has no such property
Get(x, key) ==
    IF key \in DOMAIN OwnProps(x) THEN OwnProps(x)[key] ELSE Undef

(***************************************************************************)
(* Configuration (part_000 lines 6-44) and its merge (lines 57-67)         *)
(***************************************************************************)
config ==
    Obj([debug |-> Bool(FALSE),
         retryAttempts |-> Num(3),
         retryDelay |-> Num(1000),
         tracking |-> Obj([
            forms |-> Obj([enabled |-> Bool(TRUE),
                           eventName |-> Str(<<"f","o","r","m","_","s","u","b","m","i","t">>)]),
            typeform |-> Obj([enabled |-> Bool(TRUE),
                              eventName |-> Str(<<"t","y","p","e","f","o","r","m","_","s","u","b","m","i","t">>)]),
            calendly |-> Obj([enabled |-> Bool(TRUE),
                              eventName |-> Str(<<"c","a","l","e","n","d","l","y","_","s","u","b","m","i","t">>)]),
            hubspot |-> Obj([enabled |-> Bool(TRUE),
                             eventName |-> Str(<<"h","u","b","s","p","o","t","_","s","u","b","m","i","t">>)]),
            scroll |-> Obj([enabled |-> Bool(FALSE),
                            thresholds |-> Arr(<<Num(25), Num(50), Num(75)>>),
                            eventName |-> Str(<<"s","c","r","o","l","l","_","d","e","p","t","h">>)]),
            outbound |-> Obj([enabled |-> Bool(TRUE),
                              eventName |-> Str(<<"o","u","t","b","o","u","n","d","_","l","i","n","k">>)]),
            contactLinks |-> Obj([enabled |-> Bool(TRUE),
                                  eventName |-> Obj([
                                     phone |-> Str(<<"p","h","o","n","e","_","l","i","n","k">>),
                                     email |-> Str(<<"e","m","a","i","l","_","l","i","n","k">>)])])])])

\* mergeConfig: merged = { ...default_config }; then, for every key of
\* user_config, a value with typeof 'object' that is no array is merged into
\* default_config[key] || {}, any other value is assigned
RECURSIVE mergeConfig(_, _)
mergeConfig(default_config, user_config) ==
    LET merged == OwnProps(default_config)
        over == OwnProps(user_config)
    IN  Obj([key \in DOMAIN merged \cup DOMAIN over |->
                IF key \notin DOMAIN over THEN merged[key]
                ELSE IF TypeofObject(over[key]) /\ ~IsArray(over[key])
                     THEN mergeConfig(
                            IF Truthy(Get(default_config, key))
                            THEN Get(default_config, key) ELSE EmptyObj,
                            over[key])
                     ELSE over[key]])

(***************************************************************************)
(* sanitizeEventName (part_000 lines 361-367)                              *)
(***************************************************************************)
UpperCase == <<"A","B","C","D","E","F","G","H","I","J","K","L","M",
               "N","O","P","Q","R","S","T","U","V","W","X","Y","Z">>
LowerCase == <<"a","b","c","d","e","f","g","h","i","j","k","l","m",
               "n","o","p","q","r","s","t","u","v","w","x","y","z">>
Digits == {"0","1","2","3","4","5","6","7","8","9"}
WhiteSpace == {" ", "\t", "\n", "\r"}

\* the characters of the class [a-z0-9_]
Allowed == {LowerCase[i] : i \in 1..Len(LowerCase)} \cup Digits \cup {"_"}

\* String.prototype.toLowerCase on ascii
ToLowerChar(c) ==
    IF \E i \in 1..Len(UpperCase) : UpperCase[i] = c
    THEN LowerCase[CHOOSE i \in 1..Len(UpperCase) : UpperCase[i] = c]
    ELSE c
ToLowerCase(s) == [i \in 1..Len(s) |-> ToLowerChar(s[i])]

\* .replace(/[^a-z0-9_]/g, '_')
ReplaceDisallowed(s) == [i \in 1..Len(s) |-> IF s[i] \in Allowed THEN s[i] ELSE "_"]

\* .replace(/_+/g, '_')
RECURSIVE CollapseUnderscores(_)
CollapseUnderscores(s) ==
    IF Len(s) <= 1 THEN s
    ELSE IF s[1] = "_" /\ s[2] = "_" THEN CollapseUnderscores(Tail(s))
    ELSE <<s[1]>> \o CollapseUnderscores(Tail(s))

\* .trim(): strips white space (and nothing else) at both ends
RECURSIVE TrimStart(_)
TrimStart(s) ==
    IF s # <<>> /\ s[1] \in WhiteSpace THEN TrimStart(Tail(s)) ELSE s
RECURSIVE TrimEnd(_)
TrimEnd(s) ==
    IF s # <<>> /\ s[Len(s)] \in WhiteSpace THEN TrimEnd(SubSeq(s, 1, Len(s) - 1)) ELSE s
Trim(s) == TrimEnd(TrimStart(s))

\* A sanitizer that leaves runs of underscores as they are.
sanitizeNoCollapse(event) == Trim(ReplaceDisallowed(ToLowerCase(event)))

\* the sanitized name of a string (the characters of event)
sanitizeEventName(event) ==
    Trim(CollapseUnderscores(ReplaceDisallowed(ToLowerCase(event))))

(***************************************************************************)
(* The helper object (class UmamiHelper, part_000 lines 47-375)            *)
(***************************************************************************)
\* the order in which setupEventListeners looks at the adapters
AdapterOrder == <<"forms", "typeform", "calendly", "hubspot", "scroll",
                  "outbound", "contactLinks">>

\* an element as getUmamiEvent reads it: element.dataset has the key umamiEvent
\* exactly when the element carries the attribute data-umami-event (attr is its
\* value, Undef when the element has no such attribute)
Element(attr) ==
    Obj([dataset |-> IF attr = Undef THEN EmptyObj ELSE Obj([umamiEvent |-> attr])])

\* A name resolution that ignores the element's override attribute.
getUmamiEventDefaultOnly(element, defaultEvent) == defaultEvent

\* getUmamiEvent: element?.dataset?.umamiEvent when that is truthy, else the
\* default (Get of a null or undefined value is undefined, as with ?.)
getUmamiEvent(element, defaultEvent) ==
    LET override == Get(Get(element, "dataset"), "umamiEvent")
    IN  IF Truthy(override) THEN override ELSE defaultEvent

\* this.config.tracking.<source>.eventName
EventNameOf(self, source) == Get(Get(Get(self.config, "tracking"), source), "eventName")

\* s.startsWith(prefix)
StartsWith(s, prefix) ==
    Len(s) >= Len(prefix) /\ SubSeq(s, 1, Len(prefix)) = prefix

\* s.replace(prefix, '') for a string that starts with prefix
StripPrefix(s, prefix) == SubSeq(s, Len(prefix) + 1, Len(s))

Tel == <<"t","e","l",":">>
Mailto == <<"m","a","i","l","t","o",":">>

\* window.location.host
LocationHost == Str(<<"m","y",".","i","o">>)

\* A form control named "closest" shadows the method of that name on its form
\* (named properties of a form override the built-in ones): form.closest(...)
\* is then a TypeError
ClosestIsFunction(form) == form.kind # "clobbered"

\* setupFormTracking over the forms from position i on: resolves the event
\* name through form.closest('[data-umami-event]') and binds a submit listener
\* that keeps this name
RECURSIVE setupFormTracking(_, _, _, _)
setupFormTracking(self, forms, i, done) ==
    IF i > Len(forms) THEN [annotated |-> done, threw |-> FALSE]
    ELSE IF ~ClosestIsFunction(forms[i]) THEN [annotated |-> done, threw |-> TRUE]
    ELSE LET formWrapper == forms[i].closest
             eventName == getUmamiEvent(formWrapper, EventNameOf(self, "forms"))
         IN  setupFormTracking(self, forms, i + 1,
                done \cup {[adapter |-> "forms", index |-> i,
                            event |-> eventName, detail |-> Undef]})

\* a.href is a string for an HTML anchor; for an SVG <a> element, which
\* querySelectorAll('a') matches too, it is an SVGAnimatedString object
HrefIsString(a) == a.href.t = "string"

\* setupOutboundLinkTracking over the anchors from position i on: a.href.startsWith
\* throws a TypeError on the first anchor whose href is no string; tel: and mailto:
\* anchors are skipped; an anchor of another host gets the attributes
\* data-umami-event (the resolved name) and data-umami-event-url (its href)
RECURSIVE setupOutboundLinkTracking(_, _, _, _)
setupOutboundLinkTracking(self, anchors, i, done) ==
    IF i > Len(anchors) THEN [annotated |-> done, threw |-> FALSE]
    ELSE IF ~HrefIsString(anchors[i]) THEN [annotated |-> done, threw |-> TRUE]
    ELSE IF StartsWith(anchors[i].href.v, Tel) \/ StartsWith(anchors[i].href.v, Mailto)
         THEN setupOutboundLinkTracking(self, anchors, i + 1, done)
    ELSE LET a == anchors[i]
             eventName == getUmamiEvent(Element(a.umamiEvent), EventNameOf(self, "outbound"))
         IN  IF a.host # LocationHost
             THEN setupOutboundLinkTracking(self, anchors, i + 1,
                     done \cup {[adapter |-> "outbound", index |-> i,
                                 event |-> eventName, detail |-> a.href]})
             ELSE setupOutboundLinkTracking(self, anchors, i + 1, done)

\* setupContactLinkTracking over the anchors from position i on: a tel: anchor
\* gets data-umami-event and data-umami-event-number, a mailto: anchor
\* data-umami-event and data-umami-event-email
RECURSIVE setupContactLinkTracking(_, _, _, _)
setupContactLinkTracking(self, anchors, i, done) ==
    IF i > Len(anchors) THEN [annotated |-> done, threw |-> FALSE]
    ELSE IF ~HrefIsString(anchors[i]) THEN [annotated |-> done, threw |-> TRUE]
    ELSE LET a == anchors[i]
             names == EventNameOf(self, "contactLinks")
         IN  IF StartsWith(a.href.v, Tel)
             THEN setupContactLinkTracking(self, anchors, i + 1,
                     done \cup {[adapter |-> "contactLinks", index |-> i,
                                 event |-> getUmamiEvent(Element(a.umamiEvent), Get(names, "phone")),
                                 detail |-> Str(StripPrefix(a.href.v, Tel))]})
             ELSE IF StartsWith(a.href.v, Mailto)
             THEN setupContactLinkTracking(self, anchors, i + 1,
                     done \cup {[adapter |-> "contactLinks", index |-> i,
                                 event |-> getUmamiEvent(Element(a.umamiEvent), Get(names, "email")),
                                 detail |-> Str(StripPrefix(a.href.v, Mailto))]})
             ELSE setupContactLinkTracking(self, anchors, i + 1, done)

\* setupScrollTracking: an empty set of reached thresholds, the deferred check
\* (setTimeout) and the one-shot scroll listener that attaches the handler
setupScrollTracking(self) ==
    [self EXCEPT !.reached = {},
                 !.scrollEventAttached = FALSE,
                 !.scrollTimer = "pending",
                 !.scrollOnce = TRUE]

\* the setup function of one adapter: the form adapter walks the forms, the two
\* link adapters walk the anchors, the others only register listeners;
\* annotated: the elements it bound a listener to or wrote attributes on
setupAdapter(self, adapter, doc) ==
    CASE adapter = "forms" -> setupFormTracking(self, doc.forms, 1, {})
      [] adapter = "outbound" -> setupOutboundLinkTracking(self, doc.anchors, 1, {})
      [] adapter = "contactLinks" -> setupContactLinkTracking(self, doc.anchors, 1, {})
      [] OTHER -> [annotated |-> {}, threw |-> FALSE]

\* setupEventListeners from adapter i on: reads tracking.<adapter>.enabled (a
\* TypeError when tracking.<adapter> is undefined or null) and calls the setup
\* of every enabled adapter in turn, with no try around any of them: the first
\* exception ends the whole function
RECURSIVE setupEventListeners(_, _, _)
setupEventListeners(self, doc, i) ==
    IF i > Len(AdapterOrder) THEN [self |-> self, threw |-> FALSE]
    ELSE LET adapter == AdapterOrder[i]
             source == Get(Get(self.config, "tracking"), adapter)
         IN  IF source.t \in {"undefined", "null"}
             THEN [self |-> self, threw |-> TRUE]
             ELSE IF ~Truthy(Get(source, "enabled"))
             THEN setupEventListeners(self, doc, i + 1)
             ELSE LET armed == IF adapter = "scroll" THEN setupScrollTracking(self) ELSE self
                  IN  Only({Only({IF r.threw THEN [self |-> next, threw |-> TRUE]
                                  ELSE setupEventListeners(next, doc, i + 1) :
                                  next \in {[armed EXCEPT
                                               !.annotated = @ \cup r.annotated,
                                               !.installed = IF r.threw THEN @
                                                             ELSE Append(@, adapter)]}}) :
                            r \in {setupAdapter(self, adapter, doc)}})

\* new Date(t).toISOString() for a time t of less than ten milliseconds
DecimalDigits == <<"0", "1", "2", "3", "4", "5", "6", "7", "8", "9">>
toISOString(t) ==
    Str(<<"1","9","7","0","-","0","1","-","0","1","T",
          "0","0",":","0","0",":","0","0",".","0","0", DecimalDigits[t + 1], "Z">>)

\* An enhancement in which a timestamp of the caller wins:
\* { timestamp: ..., ...properties }.
enhancedPropertiesCallerFirst(properties, t) ==
    Obj([k \in DOMAIN OwnProps(properties) \cup {"timestamp"} |->
            IF k \in DOMAIN OwnProps(properties) THEN OwnProps(properties)[k]
            ELSE toISOString(t)])

\* enhancedProperties: { ...properties, timestamp: new Date().toISOString() }
enhancedProperties(properties, t) ==
    Obj([k \in DOMAIN OwnProps(properties) \cup {"timestamp"} |->
            IF k = "timestamp" THEN toISOString(t) ELSE OwnProps(properties)[k]])

\* the record of one invocation of window.umami.track: the logEvent call it
\* serves, the sanitized name, the enhanced properties, and, for the
\* properties above, whether the helper was initialized, which adapters were
\* installed at that moment and whether track threw
TrackRecord(self, entry, trackThrows) ==
    [call |-> entry.call,
     name |-> sanitizeEventName(entry.event.v),
     properties |-> enhancedProperties(entry.properties, now),
     ready |-> self.initialized,
     installed |-> self.installed,
     threw |-> trackThrows]

\* A logEvent that dispatches whether or not the helper is initialized.
logEventNoGate(self, entry, present, trackThrows) ==
    IF entry.event.t # "string" \/ ~present
    THEN [self |-> self, track |-> <<>>, threw |-> FALSE]
    ELSE [self |-> self, track |-> <<TrackRecord(self, entry, trackThrows)>>, threw |-> FALSE]

\* A logEvent whose dispatch is not wrapped in try/catch.
logEventNoTry(self, entry, present, trackThrows) ==
    IF ~self.initialized
    THEN [self |-> [self EXCEPT !.eventQueue = Append(@, entry)],
          track |-> <<>>, threw |-> FALSE]
    ELSE IF entry.event.t # "string" \/ ~present
    THEN [self |-> self, track |-> <<>>, threw |-> TRUE]
    ELSE [self |-> self, track |-> <<TrackRecord(self, entry, trackThrows)>>,
          threw |-> trackThrows]

\* logEvent: queues while the helper is not initialized; else, inside one try,
\* sanitizes the name (a TypeError unless it is a string), builds the enhanced
\* properties, reads window.umami (a TypeError when it is undefined) and
\* invokes track, which may throw; the catch swallows all of it.
\* threw: an exception left logEvent.
logEvent(self, entry, present, trackThrows) ==
    IF ~self.initialized
    THEN [self |-> [self EXCEPT !.eventQueue = Append(@, entry)],
          track |-> <<>>, threw |-> FALSE]
    ELSE IF entry.event.t # "string" \/ ~present
    THEN [self |-> self, track |-> <<>>, threw |-> FALSE]
    ELSE [self |-> self, track |-> <<TrackRecord(self, entry, trackThrows)>>, threw |-> FALSE]

\* A drain that stops at the first entry whose dispatch fails.
RECURSIVE processEventQueueStopOnFailure(_, _, _, _)
processEventQueueStopOnFailure(self, present, mask, sent) ==
    IF self.eventQueue = <<>> THEN [self |-> self, track |-> sent]
    ELSE LET head == Head(self.eventQueue)
             r == logEvent([self EXCEPT !.eventQueue = Tail(@)], head, present, Head(mask))
         IN  IF r.track = <<>> \/ Head(mask)
             THEN [self |-> [r.self EXCEPT !.eventQueue = <<>>], track |-> sent \o r.track]
             ELSE processEventQueueStopOnFailure(r.self, present, Tail(mask), sent \o r.track)

\* A drain that takes the newest entry first (pop instead of shift).
RECURSIVE processEventQueueLifo(_, _, _, _)
processEventQueueLifo(self, present, mask, sent) ==
    IF self.eventQueue = <<>> THEN [self |-> self, track |-> sent]
    ELSE LET n == Len(self.eventQueue)
             last == self.eventQueue[n]
             r == logEvent([self EXCEPT !.eventQueue = SubSeq(@, 1, n - 1)],
                           last, present, Head(mask))
         IN  processEventQueueLifo(r.self, present, Tail(mask), sent \o r.track)

\* A drain that walks the queue without removing what it dispatches.
RECURSIVE processEventQueueKeep(_, _, _, _)
processEventQueueKeep(self, present, mask, sent) ==
    IF mask = <<>> THEN [self |-> self, track |-> sent]
    ELSE LET k == Len(self.eventQueue) - Len(mask) + 1
             r == logEvent(self, self.eventQueue[k], present, Head(mask))
         IN  processEventQueueKeep(r.self, present, Tail(mask), sent \o r.track)

\* processEventQueue: while the queue is not empty, shift its head and hand it
\* to logEvent; mask[k] says whether the k-th track invocation from now throws
RECURSIVE processEventQueue(_, _, _, _)
processEventQueue(self, present, mask, sent) ==
    IF self.eventQueue = <<>> THEN [self |-> self, track |-> sent]
    ELSE Only({processEventQueue(r.self, present, Tail(mask), sent \o r.track) :
                 r \in {logEvent([self EXCEPT !.eventQueue = Tail(@)], Head(self.eventQueue),
                                 present, Head(mask))}})

\* checkUmamiAvailable: typeof window.umami !== 'undefined'
checkUmamiAvailable(present) == present

\* ToNumber(x) for the comparison attempts >= maxAttempts: a number, null (0)
\* or a boolean; any other value of the model's configurations compares as NaN,
\* which is never reached
IsNumeric(x) == x.t \in {"number", "null", "boolean"}
ToNumber(x) ==
    CASE x.t = "number" -> x.v
      [] x.t = "boolean" -> IF x.v THEN 1 ELSE 0
      [] OTHER -> 0

\* the two steps that follow a successful presence check, in init and in the
\* poll callback alike: drain the queue, then install the adapters (drains
\* counts the drains, setupDocument keeps the document the adapters saw)
becomeReady(self, present, doc, mask) ==
    Only({Only({[self |-> setup.self, track |-> drained.track, threw |-> setup.threw] :
                setup \in {setupEventListeners(drained.self, doc, 1)}}) :
          drained \in {processEventQueue([self EXCEPT !.initialized = TRUE,
                                                      !.drains = @ + 1,
                                                      !.setupDocument = doc],
                                         present, mask, <<>>)}})

\* new UmamiHelper(options): the constructor and the init() it ends with
construct(options, present, doc) ==
    LET self == [config |-> mergeConfig(config, IF options = Undef THEN EmptyObj ELSE options),
                 initialized |-> FALSE,
                 eventQueue |-> <<>>,
                 checkInterval |-> "none",
                 attempts |-> 0,
                 installed |-> <<>>,
                 annotated |-> {},
                 reached |-> {},
                 scrollEventAttached |-> FALSE,
                 scrollTimer |-> "none",
                 scrollOnce |-> FALSE,
                 drains |-> 0,
                 setupDocument |-> doc,
                 checks |-> <<>>]
    IN  IF checkUmamiAvailable(present)
        THEN becomeReady([self EXCEPT !.checks = Append(@, TRUE)], present, doc, <<>>)
        ELSE [self |-> [self EXCEPT !.checkInterval = "active", !.checks = Append(@, FALSE)],
              track |-> <<>>, threw |-> FALSE]

\* A poll callback that never gives up: no clearInterval on exhaustion.
pollCallbackNoStop(self, present, doc, mask) ==
    LET counted == [self EXCEPT !.attempts = @ + 1,
                                !.checks = Append(@, checkUmamiAvailable(present))]
    IN  IF checkUmamiAvailable(present)
        THEN becomeReady([counted EXCEPT !.checkInterval = "cleared"], present, doc, mask)
        ELSE [self |-> counted, track |-> <<>>, threw |-> FALSE]

\* the callback of setInterval in waitForUmami
pollCallback(self, present, doc, mask) ==
    LET counted == [self EXCEPT !.attempts = @ + 1,
                                !.checks = Append(@, checkUmamiAvailable(present))]
        maxAttempts == Get(self.config, "retryAttempts")
    IN  IF checkUmamiAvailable(present)
        THEN becomeReady([counted EXCEPT !.checkInterval = "cleared"], present, doc, mask)
        ELSE IF IsNumeric(maxAttempts) /\ counted.attempts >= ToNumber(maxAttempts)
        THEN [self |-> [counted EXCEPT !.checkInterval = "cleared"],
              track |-> <<>>, threw |-> FALSE]
        ELSE [self |-> counted, track |-> <<>>, threw |-> FALSE]

\* the state of the readiness gate of a helper
Gate(self) ==
    IF self.initialized THEN "READY"
    ELSE IF self.checkInterval = "cleared" THEN "FAILED"
    ELSE "NOT_READY"

(***************************************************************************)
(* The handlers of the adapters.  Each gives the helper after the handler, *)
(* the track invocations made, the logEvent calls made (entries, with the  *)
(* element the name was resolved from) and whether an exception left the   *)
(* handler.  A string that is only compared or tested for emptiness is     *)
(* written as a sequence of one or more pieces instead of characters.      *)
(***************************************************************************)
None == Str(<<"None">>)

\* x || 'None'
OrNone(x) == IF Truthy(x) THEN x ELSE None

\* one logEvent call of a handler, added to what the handler did so far
Emit(acc, event, properties, element, source, trackThrows) ==
    Only({Only({[self |-> r.self,
                 track |-> done.track \o r.track,
                 entries |-> Append(done.entries,
                                    [event |-> event, properties |-> properties,
                                     element |-> element, source |-> source,
                                     queued |-> r.self.eventQueue # done.self.eventQueue,
                                     threw |-> r.threw]),
                 threw |-> done.threw \/ r.threw] :
                r \in {logEvent(done.self,
                                [event |-> event, properties |-> properties,
                                 call |-> Len(calls) + Len(done.entries) + 1],
                                umami, trackThrows)}}) :
          done \in {acc}})

Quiet(self) == [self |-> self, track |-> <<>>, entries |-> <<>>, threw |-> FALSE]
Thrown(self) == [self |-> self, track |-> <<>>, entries |-> <<>>, threw |-> TRUE]

\* the submit listener of form i: logs the name resolved at setup
submitListener(self, doc, i, trackThrows) ==
    LET bound == {r \in self.annotated : r.adapter = "forms" /\ r.index = i}
        form == doc.forms[i]
    IN  IF bound = {} THEN Quiet(self)
        ELSE Emit(Quiet(self), (CHOOSE r \in bound : TRUE).event,
                  Obj([form_name |-> OrNone(form.name), form_id |-> OrNone(form.id)]),
                  self.setupDocument.forms[i].closest, "forms", trackThrows)

TypeformOrigin == "https://form.typeform.com"
CalendlyOrigin == "https://calendly.com"
HubspotOrigin == "https://meetings.hubspot.com"

\* the message listener of the typeform adapter
typeformListener(self, doc, e, trackThrows) ==
    IF ~(e.origin = TypeformOrigin /\ Truthy(e.data)) THEN Quiet(self)
    ELSE IF Get(e.data, "type") # Str(<<"form-submit">>) THEN Quiet(self)
    ELSE LET typeform == IF Get(doc.typeform, "widget") = Get(e.data, "formId")
                         THEN doc.typeform ELSE Null
         IN  IF typeform.t = "null" THEN Thrown(self)
             ELSE LET typeformEmbed == Get(typeform, "closest")
                      eventName == getUmamiEvent(typeformEmbed, EventNameOf(self, "typeform"))
                      formName == Get(typeform, "title")
                  IN  Emit(Quiet(self), eventName,
                           Obj([form_name |-> OrNone(formName),
                                form_id |-> OrNone(Get(e.data, "formId")),
                                response_id |-> OrNone(Get(e.data, "responseId"))]),
                           typeformEmbed, "typeform", trackThrows)

\* extractIdFromUrl: the piece that follows the marker, null when there is none
extractIdFromUrl(url, marker) ==
    IF \E i \in 1..Len(url.v) - 1 : url.v[i] = marker
    THEN Str(<<url.v[(CHOOSE i \in 1..Len(url.v) - 1 : url.v[i] = marker) + 1]>>)
    ELSE Null

\* x.key where x itself may be undefined or null: reading it is a TypeError
Readable(x) == x.t \notin {"undefined", "null"}

\* the message listener of the calendly adapter
calendlyListener(self, doc, e, trackThrows) ==
    IF e.origin # CalendlyOrigin THEN Quiet(self)
    ELSE IF ~Readable(e.data) THEN Thrown(self)
    ELSE IF ~Truthy(Get(e.data, "event")) THEN Quiet(self)
    ELSE IF Get(e.data, "event").t # "string" THEN Thrown(self)
    ELSE IF Get(e.data, "event") # Str(<<"calendly.", "event_scheduled">>) THEN Quiet(self)
    ELSE LET payload == Get(e.data, "payload")
             event == Get(payload, "event")
             invitee == Get(payload, "invitee")
         IN  IF ~Readable(payload) \/ ~Readable(event) \/ Get(event, "uri").t # "string"
                \/ ~Readable(invitee) \/ Get(invitee, "uri").t # "string"
             THEN Thrown(self)
             ELSE LET eventId == extractIdFromUrl(Get(event, "uri"), "scheduled_events/")
                      inviteeId == extractIdFromUrl(Get(invitee, "uri"), "invitees/")
                      calendlyEmbed == doc.calendly
                      eventName == getUmamiEvent(calendlyEmbed, EventNameOf(self, "calendly"))
                  IN  IF calendlyEmbed.t = "null" THEN Thrown(self)
                      ELSE Emit(Quiet(self), eventName,
                                Obj([form_url |-> Get(Get(calendlyEmbed, "dataset"), "url"),
                                     event_id |-> OrNone(eventId),
                                     invitee_id |-> OrNone(inviteeId)]),
                                calendlyEmbed, "calendly", trackThrows)

\* the message listener of the hubspot adapter
hubspotListener(self, doc, e, trackThrows) ==
    IF ~(e.origin = HubspotOrigin /\ Truthy(e.data)) THEN Quiet(self)
    ELSE IF ~Truthy(Get(e.data, "meetingBookSucceeded")) THEN Quiet(self)
    ELSE LET hubspotEmbed == doc.hubspot
             eventName == getUmamiEvent(hubspotEmbed, EventNameOf(self, "hubspot"))
             bookingResponse == Get(Get(e.data, "meetingsPayload"), "bookingResponse")
             postResponse == Get(bookingResponse, "postResponse")
             event == Get(bookingResponse, "event")
         IN  IF ~Readable(Get(e.data, "meetingsPayload")) \/ ~Readable(bookingResponse)
                \/ ~Readable(postResponse) \/ ~Readable(Get(postResponse, "organizer"))
                \/ ~Readable(event) \/ ~Readable(Get(postResponse, "timerange"))
             THEN Thrown(self)
             ELSE Emit(Quiet(self), eventName,
                       Obj([organizer |-> OrNone(Get(Get(postResponse, "organizer"), "name")),
                            meeting_date |-> OrNone(Get(event, "dateString")),
                            meeting_start |-> OrNone(Get(Get(postResponse, "timerange"), "start")),
                            meeting_end |-> OrNone(Get(Get(postResponse, "timerange"), "end")),
                            meeting_duration |-> OrNone(Get(event, "duration"))]),
                       hubspotEmbed, "hubspot", trackThrows)

\* the listener that adapter registered for the window's message event
messageListener(adapter, self, doc, e, trackThrows) ==
    CASE adapter = "typeform" -> typeformListener(self, doc, e, trackThrows)
      [] adapter = "calendly" -> calendlyListener(self, doc, e, trackThrows)
      [] adapter = "hubspot" -> hubspotListener(self, doc, e, trackThrows)

\* Math.round of a position given in tenths of a percent
Round(tenths) == (tenths + 5) \div 10

\* handleScroll that returns from the pass after the first threshold it logs
RECURSIVE handleScrollFirstOnly(_, _, _, _)
handleScrollFirstOnly(acc, i, position, mask) ==
    LET source == Get(Get(acc.self.config, "tracking"), "scroll")
        thresholds == Get(source, "thresholds").v
        percentage == Round(position)
    IN  IF i > Len(thresholds) THEN acc
        ELSE IF percentage >= thresholds[i].v /\ thresholds[i] \notin acc.self.reached
        THEN Emit([acc EXCEPT !.self.reached = @ \cup {thresholds[i]}],
                  Get(source, "eventName"),
                  Obj([percentage |-> thresholds[i], url |-> Str(<<"/">>)]),
                  Undef, "scroll", mask[i])
        ELSE handleScrollFirstOnly(acc, i + 1, position, mask)

\* handleScroll from threshold i on, at the scroll position given in tenths of
\* a percent: thresholds.forEach in the order of the configured array; a
\* threshold that the rounded percentage has reached and that is not in the set
\* yet is added to it and logged
RECURSIVE handleScroll(_, _, _, _)
handleScroll(acc, i, position, mask) ==
    LET source == Get(Get(acc.self.config, "tracking"), "scroll")
        thresholds == Get(source, "thresholds").v
        percentage == Round(position)
    IN  IF i > Len(thresholds) THEN acc
        ELSE IF percentage >= thresholds[i].v /\ thresholds[i] \notin acc.self.reached
        THEN handleScroll(
                Emit([acc EXCEPT !.self.reached = @ \cup {thresholds[i]}],
                     Get(source, "eventName"),
                     Obj([percentage |-> thresholds[i], url |-> Str(<<"/">>)]),
                     Undef, "scroll", mask[i]),
                i + 1, position, mask)
        ELSE handleScroll(acc, i + 1, position, mask)

\* attachScrollHandler: the first call registers handleScroll for the scroll
\* event and runs it once
attachScrollHandler(self, position, mask) ==
    IF ~self.scrollEventAttached
    THEN handleScroll(Quiet([self EXCEPT !.scrollEventAttached = TRUE]), 1, position, mask)
    ELSE Quiet(self)

\* the callback of the deferred check of setupScrollTracking: compares the
\* percentage, not rounded, with 25
scrollTimerCallback(self, position, mask) ==
    IF position < 250
    THEN attachScrollHandler([self EXCEPT !.scrollTimer = "fired"], position, mask)
    ELSE Quiet([self EXCEPT !.scrollTimer = "fired"])

\* the window's scroll event: the one-shot attachScrollHandler, when it is
\* still registered, then handleScroll, when it was registered before this
\* event (a listener added during the dispatch is not run by it)
scrollListeners(self, position, mask) ==
    LET first == IF self.scrollOnce
                 THEN attachScrollHandler([self EXCEPT !.scrollOnce = FALSE], position, mask)
                 ELSE Quiet(self)
    IN  IF self.scrollEventAttached THEN handleScroll(first, 1, position, mask) ELSE first

(***************************************************************************)
(* Inputs                                                                  *)
(***************************************************************************)
MaxEvents == 2
MaxInitCalls == 2
MaxTime == 2

FormSubmit == Str(<<"F","o","r","m"," ","S","u","b","m","i","t","!","!">>)

\* event names handed to logEvent: a string and a value that is no string
EventNames == {FormSubmit, Undef}

Properties == {Obj([form_id |-> Str(<<"x">>)])}

\* configurations handed to UmamiHelper.init
UserConfigs ==
    {Undef,
     Obj([retryAttempts |-> Num(0)]),
     Obj([retryAttempts |-> Num(1)]),
     Obj([debug |-> Bool(TRUE),
          tracking |-> Obj([typeform |-> Obj([enabled |-> Bool(FALSE)]),
                            scroll |-> Obj([enabled |-> Bool(TRUE)])])])}

\* an override name, as written in a data-umami-event attribute
Cta == Str(<<"c","t","a">>)

\* forms: kind "clobbered" has a control named "closest"; closest is what
\* form.closest('[data-umami-event]') finds: null or an element
Form(kind, closest) == [kind |-> kind, closest |-> closest, name |-> Null, id |-> Str(<<"f1">>)]

\* anchors: href, host and the data-umami-event attribute
External(attr) ==
    [href |-> Str(<<"h","t","t","p","s",":","/","/","x",".","i","o","/">>),
     host |-> Str(<<"x",".","i","o">>), umamiEvent |-> attr]
Internal(attr) ==
    [href |-> Str(<<"h","t","t","p","s",":","/","/","m","y",".","i","o","/","a">>),
     host |-> LocationHost, umamiEvent |-> attr]
TelLink == [href |-> Str(<<"t","e","l",":","+","1","2","3">>), host |-> Str(<<>>), umamiEvent |-> Undef]
MailtoLink == [href |-> Str(<<"m","a","i","l","t","o",":","a","@","b">>), host |-> Str(<<>>),
               umamiEvent |-> Cta]
\* an <a> inside an <svg>: href is an SVGAnimatedString, there is no host
SvgLink == [href |-> Obj([baseVal |-> Str(<<"#">>), animVal |-> Str(<<"#">>)]),
            host |-> Undef, umamiEvent |-> Undef]

NoWidgets == [typeform |-> Null, calendly |-> Null, hubspot |-> Null]
Document(forms, anchors, widgets) ==
    [forms |-> forms, anchors |-> anchors, typeform |-> widgets.typeform,
     calendly |-> widgets.calendly, hubspot |-> widgets.hubspot]

\* documents: one on which every setup succeeds, one with an SVG anchor, one
\* with a form whose control is named "closest"
Pages ==
    {Document(<<Form("plain", Null)>>, <<External(Undef), Internal(Cta), TelLink>>, NoWidgets),
     Document(<<>>, <<TelLink, SvgLink, MailtoLink, External(Cta)>>, NoWidgets),
     Document(<<Form("plain", Element(Cta)), Form("clobbered", Null)>>, <<External(Undef)>>, NoWidgets)}

(***************************************************************************)
(* The page's events                                                       *)
(***************************************************************************)
pure == <<fnArg, fnRes>>

Start ==
    /\ now = 0
    /\ scrolled = 0
    /\ factory = [initialized |-> FALSE, instance |-> 0]
    /\ graceTimer = TRUE
    /\ helpers = <<>>
    /\ tracked = <<>>
    /\ calls = <<>>
    /\ initReturns = <<>>
    /\ uncaught = {}
    /\ fnArg = <<>>
    /\ fnRes = [done |-> FALSE]

Init ==
    /\ umami \in BOOLEAN
    /\ page \in Pages
    /\ Start

\* the collector's script runs and defines window.umami
UmamiLoads ==
    /\ ~umami
    /\ umami' = TRUE
    /\ UNCHANGED <<page, now, scrolled, factory, graceTimer, helpers, tracked, calls,
                   initReturns, uncaught, pure>>

\* time passes
Tick ==
    /\ now < MaxTime
    /\ now' = now + 1
    /\ UNCHANGED <<umami, page, scrolled, factory, graceTimer, helpers, tracked, calls,
                   initReturns, uncaught, pure>>

\* window.UmamiHelper.init(cfg), lines 381-388
InitCall(cfg) ==
    /\ Len(initReturns) < MaxInitCalls
    /\ IF ~factory.initialized
       THEN \E r \in {construct(cfg, umami, page)} :
                /\ helpers' = Append(helpers, r.self)
                /\ tracked' = tracked \o r.track
                /\ factory' = [initialized |-> TRUE,
                               instance |-> IF r.threw THEN factory.instance
                                            ELSE Len(helpers) + 1]
                /\ initReturns' = Append(initReturns,
                                    IF r.threw THEN [threw |-> TRUE, value |-> 0]
                                    ELSE [threw |-> FALSE, value |-> Len(helpers) + 1])
       ELSE /\ initReturns' = Append(initReturns, [threw |-> FALSE, value |-> factory.instance])
            /\ UNCHANGED <<helpers, tracked, factory>>
    /\ UNCHANGED <<umami, page, now, scrolled, graceTimer, calls, uncaught, pure>>

\* the callback of setTimeout(..., 0), lines 392-397
GraceTimerFires ==
    /\ graceTimer
    /\ graceTimer' = FALSE
    /\ IF ~factory.initialized
       THEN \E r \in {construct(Undef, umami, page)} :
                /\ helpers' = Append(helpers, r.self)
                /\ tracked' = tracked \o r.track
                /\ factory' = [initialized |-> TRUE,
                               instance |-> IF r.threw THEN factory.instance
                                            ELSE Len(helpers) + 1]
                /\ uncaught' = IF r.threw THEN uncaught \cup {"graceTimer"} ELSE uncaught
       ELSE UNCHANGED <<helpers, tracked, factory, uncaught>>
    /\ UNCHANGED <<umami, page, now, scrolled, calls, initReturns, pure>>

\* one tick of the interval timer of helper h
PollTick(h) ==
    /\ helpers[h].checkInterval = "active"
    /\ \E mask \in [1..Len(helpers[h].eventQueue) -> BOOLEAN] :
         \E r \in {pollCallback(helpers[h], umami, page, mask)} :
             /\ helpers' = [helpers EXCEPT ![h] = r.self]
             /\ tracked' = tracked \o r.track
             /\ uncaught' = IF r.threw THEN uncaught \cup {"poll"} ELSE uncaught
    /\ UNCHANGED <<umami, page, now, scrolled, factory, graceTimer, calls, initReturns, pure>>

\* the entry of the history for one logEvent call: who made it, on which
\* helper, in which gate state, when and with which document, whether it
\* threw and whether it appended to the queue; batch is the number of calls
\* made before the callback that made this one began, so that the calls of one
\* run of a callback share it
CallRecord(h, e) ==
    [event |-> e.event, properties |-> e.properties, element |-> e.element,
     source |-> e.source, helper |-> h, gate |-> Gate(helpers[h]), time |-> now,
     document |-> page, threw |-> e.threw, queued |-> e.queued,
     batch |-> Len(calls)]

\* what a handler of helper h did: the helper, the track invocations, the
\* logEvent calls, and an exception that reaches the page
Handled(h, r, callback) ==
    /\ helpers' = [helpers EXCEPT ![h] = r.self]
    /\ tracked' = tracked \o r.track
    /\ calls' = calls \o [k \in 1..Len(r.entries) |-> CallRecord(h, r.entries[k])]
    /\ uncaught' = IF r.threw THEN uncaught \cup {callback} ELSE uncaught

\* the page calls UmamiHelper.instance.logEvent(event, properties)
LogEventCall(event, properties, trackThrows) ==
    /\ Len(calls) < MaxEvents
    /\ factory.instance # 0
    /\ \E h \in {factory.instance} :
          \E r \in {Emit(Quiet(helpers[h]), event, properties, Undef, "page", trackThrows)} :
             /\ helpers' = [helpers EXCEPT ![h] = r.self]
             /\ tracked' = tracked \o r.track
             /\ calls' = Append(calls, CallRecord(h, r.entries[1]))
    /\ UNCHANGED <<umami, page, now, scrolled, factory, graceTimer, initReturns, uncaught, pure>>

\* the user submits form i
SubmitForm(h, i) ==
    /\ Len(calls) < MaxEvents
    /\ \E trackThrows \in BOOLEAN :
          \E r \in {submitListener(helpers[h], page, i, trackThrows)} : Handled(h, r, "submit")
    /\ UNCHANGED <<umami, page, now, scrolled, factory, graceTimer, initReturns, pure>>

\* the listeners of helper h for the window's message event, in the order in
\* which they were registered; an exception of one does not stop the next
RECURSIVE messageListeners(_, _, _, _, _)
messageListeners(acc, doc, e, trackThrows, i) ==
    IF i > Len(acc.self.installed) THEN acc
    ELSE IF acc.self.installed[i] \notin {"typeform", "calendly", "hubspot"}
    THEN messageListeners(acc, doc, e, trackThrows, i + 1)
    ELSE Only({messageListeners(next, doc, e, trackThrows, i + 1) :
                 next \in {Only({[self |-> r.self, track |-> acc.track \o r.track,
                                  entries |-> acc.entries \o r.entries,
                                  threw |-> acc.threw \/ r.threw] :
                                 r \in {messageListener(acc.self.installed[i], acc.self,
                                                        doc, e, trackThrows)}})}})

\* a frame posts the message e to the window
Message(h, e) ==
    /\ Len(calls) < MaxEvents
    /\ \E trackThrows \in BOOLEAN :
          \E r \in {messageListeners(Quiet(helpers[h]), page, e, trackThrows, 1)} :
             Handled(h, r, "message")
    /\ UNCHANGED <<umami, page, now, scrolled, factory, graceTimer, initReturns, pure>>

\* the page's script changes the data-umami-event attribute of the element
\* that wraps form i
SetFormAttribute(i, attr) ==
    /\ page.forms[i].closest.t # "null"
    /\ page.forms[i].closest # Element(attr)
    /\ page' = [page EXCEPT !.forms[i].closest = Element(attr)]
    /\ UNCHANGED <<umami, now, scrolled, factory, graceTimer, helpers, tracked, calls,
                   initReturns, uncaught, pure>>

\* the page's script changes the data-umami-event attribute of the element
\* that embeds the typeform widget
SetEmbedAttribute(attr) ==
    /\ Get(page.typeform, "closest").t = "object"
    /\ Get(page.typeform, "closest") # Element(attr)
    /\ page' = [page EXCEPT !.typeform.v.closest = Element(attr)]
    /\ UNCHANGED <<umami, now, scrolled, factory, graceTimer, helpers, tracked, calls,
                   initReturns, uncaught, pure>>

\* the deferred check of the scroll adapter of helper h runs
ScrollTimerFires(h) ==
    /\ helpers[h].scrollTimer = "pending"
    /\ \E mask \in [1..Len(Get(Get(Get(helpers[h].config, "tracking"), "scroll"), "thresholds").v)
                     -> BOOLEAN] :
          \E r \in {scrollTimerCallback(helpers[h], scrolled, mask)} :
             Handled(h, r, "scrollTimer")
    /\ UNCHANGED <<umami, page, now, scrolled, factory, graceTimer, initReturns, pure>>

\* the page is scrolled to position p: the scroll listeners of the helper run
Scroll(p) ==
    /\ p # scrolled
    /\ scrolled' = p
    /\ IF helpers = <<>>
       THEN UNCHANGED <<helpers, tracked, calls, uncaught>>
       ELSE LET h == Len(helpers)
            IN  \E mask \in [1..Len(Get(Get(Get(helpers[h].config, "tracking"), "scroll"),
                                         "thresholds").v) -> BOOLEAN] :
                   \E r \in {scrollListeners(helpers[h], p, mask)} : Handled(h, r, "scroll")
    /\ UNCHANGED <<umami, page, now, factory, graceTimer, initReturns, pure>>

Next ==
    \/ UmamiLoads
    \/ \E cfg \in UserConfigs : InitCall(cfg)
    \/ GraceTimerFires
    \/ \E h \in 1..Len(helpers) : PollTick(h)
    \/ \E event \in EventNames, properties \in Properties, trackThrows \in BOOLEAN :
          LogEventCall(event, properties, trackThrows)

Spec == Init /\ [][Next]_vars

(***************************************************************************)
(* Scroll depth: configurations that enable the scroll adapter, with the   *)
(* default thresholds, with thresholds that are not in ascending order and *)
(* with thresholds whose lowest is not 25                                  *)
(***************************************************************************)
ScrollOn(thresholds) ==
    Obj([tracking |-> Obj([scroll |-> Obj([enabled |-> Bool(TRUE),
                                           thresholds |-> Arr(thresholds)])])])
ScrollConfigs ==
    {Obj([tracking |-> Obj([scroll |-> Obj([enabled |-> Bool(TRUE)])])]),
     ScrollOn(<<Num(75), Num(25)>>),
     ScrollOn(<<Num(10), Num(60)>>)}

\* scroll positions in tenths of a percent: the top, 15%, 24.6% (which rounds
\* to 25), 30% and 80%
ScrollPositions == {0, 150, 246, 300, 800}

InitScroll ==
    /\ umami \in BOOLEAN
    /\ page = Document(<<>>, <<>>, NoWidgets)
    /\ Start

NextScroll ==
    \/ UmamiLoads
    \/ \E cfg \in ScrollConfigs : InitCall(cfg)
    \/ GraceTimerFires
    \/ \E h \in 1..Len(helpers) : PollTick(h)
    \/ \E h \in 1..Len(helpers) : ScrollTimerFires(h)
    \/ \E p \in ScrollPositions : Scroll(p)

SpecScroll == InitScroll /\ [][NextScroll]_vars

(***************************************************************************)
(* The clock: logEvent calls whose properties do or do not bring their own *)
(* timestamp, while time passes                                            *)
(***************************************************************************)
ClockNames == {Str(<<"o","k">>)}
ClockProperties ==
    {Obj([form_id |-> Str(<<"x">>)]),
     Obj([form_id |-> Str(<<"x">>), timestamp |-> Str(<<"2","0","2","0">>)])}

InitClock ==
    /\ umami \in BOOLEAN
    /\ page = Document(<<Form("plain", Null)>>, <<External(Undef)>>, NoWidgets)
    /\ Start

NextClock ==
    \/ UmamiLoads
    \/ Tick
    \/ GraceTimerFires
    \/ InitCall(Undef)
    \/ \E h \in 1..Len(helpers) : PollTick(h)
    \/ \E event \in ClockNames, properties \in ClockProperties, trackThrows \in BOOLEAN :
          LogEventCall(event, properties, trackThrows)

SpecClock == InitClock /\ [][NextClock]_vars

(***************************************************************************)
(* The adapters at work: a document with a form and widget embeds, form    *)
(* submissions, messages of the widgets' frames and scripts of the page    *)
(* that change override attributes                                         *)
(***************************************************************************)
\* the value that the page's script writes into an override attribute
Buy == Str(<<"b","u","y">>)
Attributes == {Buy}

\* the typeform widget tf1 inside its embed ([data-tf-live], or none), the
\* calendly embed and the hubspot container
Widgets(typeformEmbed) ==
    [typeform |-> Obj([widget |-> Str(<<"tf1">>),
                       closest |-> typeformEmbed,
                       title |-> Str(<<"Survey">>)]),
     calendly |-> Obj([dataset |-> Obj([url |-> Str(<<"https://calendly.com/", "me">>)])]),
     hubspot |-> Null]

AdapterPages ==
    {Document(<<Form("plain", Element(Cta))>>, <<>>, Widgets(Element(Undef))),
     Document(<<Form("plain", Element(Str(<<>>)))>>, <<>>, Widgets(Null))}

TypeformSubmit(formId) ==
    [origin |-> TypeformOrigin,
     data |-> Obj([type |-> Str(<<"form-submit">>), formId |-> formId,
                   responseId |-> Str(<<"r1">>)])]
CalendlyScheduled(payload) ==
    [origin |-> CalendlyOrigin,
     data |-> Obj([event |-> Str(<<"calendly.", "event_scheduled">>), payload |-> payload])]
CalendlyPayload ==
    Obj([event |-> Obj([uri |-> Str(<<"https://api.calendly.com/", "scheduled_events/", "E1">>)]),
         invitee |-> Obj([uri |-> Str(<<"https://api.calendly.com/", "invitees/", "I1">>)])])
HubspotBooked(payload) ==
    [origin |-> HubspotOrigin,
     data |-> Obj([meetingBookSucceeded |-> Bool(TRUE), meetingsPayload |-> payload])]
HubspotPayload ==
    Obj([bookingResponse |-> Obj([
            postResponse |-> Obj([organizer |-> Obj([name |-> Str(<<"Ann">>)]),
                                  timerange |-> Obj([start |-> Num(1), end |-> Num(2)])]),
            event |-> Obj([dateString |-> Str(<<"2026-01-01">>), duration |-> Num(30)])])])

\* messages: a submission of the widget tf1 and of a widget that is not in the
\* document, a scheduling and a booking with and without their payload, and a
\* message of some other frame
Messages ==
    {TypeformSubmit(Str(<<"tf1">>)), TypeformSubmit(Str(<<"tf2">>)),
     CalendlyScheduled(CalendlyPayload), CalendlyScheduled(Undef),
     HubspotBooked(HubspotPayload), HubspotBooked(Undef),
     [origin |-> "https://other.example", data |-> Null]}

InitAdapters ==
    /\ umami \in BOOLEAN
    /\ page \in AdapterPages
    /\ Start

NextAdapters ==
    \/ UmamiLoads
    \/ GraceTimerFires
    \/ \E h \in 1..Len(helpers) : PollTick(h)
    \/ \E h \in 1..Len(helpers), i \in 1..Len(page.forms) : SubmitForm(h, i)
    \/ \E h \in 1..Len(helpers), e \in Messages : Message(h, e)
    \/ \E i \in 1..Len(page.forms), attr \in Attributes : SetFormAttribute(i, attr)
    \/ \E attr \in Attributes : SetEmbedAttribute(attr)

SpecAdapters == InitAdapters /\ [][NextAdapters]_vars

(***************************************************************************)
(* The pure functions on their own: sanitizeEventName and mergeConfig      *)
(***************************************************************************)
MaxNameLen == 3

\* an upper-case and a lower-case letter, a digit, the underscore, a blank
\* and a symbol
SanitizeChars == {"A", "b", "7", "_", " ", "!"}
SanitizeNames == UNION {[1..n -> SanitizeChars] : n \in 0..MaxNameLen}

\* leaves of a configuration: a scalar, null and an array
MergeLeaves == {Num(1), Null, Arr(<<Num(2)>>)}
MergeFlat ==
    {Obj(f) : f \in UNION {[K -> MergeLeaves] : K \in SUBSET {"a", "b"}}}
\* objects that nest one level under the key "a"
MergeObjects ==
    {Obj(f) : f \in UNION {{g \in [K -> MergeLeaves \cup MergeFlat] :
                               \A k \in K : k = "a" \/ g[k] \in MergeLeaves} :
                           K \in SUBSET {"a", "b"}}}

Idle ==
    /\ umami = FALSE
    /\ page = Document(<<>>, <<>>, NoWidgets)
    /\ now = 0
    /\ scrolled = 0
    /\ factory = [initialized |-> FALSE, instance |-> 0]
    /\ graceTimer = TRUE
    /\ helpers = <<>>
    /\ tracked = <<>>
    /\ calls = <<>>
    /\ initReturns = <<>>
    /\ uncaught = {}

world == <<umami, page, now, scrolled, factory, graceTimer, helpers, tracked,
           calls, initReturns, uncaught>>

InitSanitize ==
    /\ Idle
    /\ fnArg \in SanitizeNames
    /\ fnRes = [done |-> FALSE]

\* sanitizeEventName(x), and sanitizeEventName of its result
ApplySanitize ==
    /\ ~fnRes.done
    /\ fnRes' = [done |-> TRUE,
                 once |-> sanitizeEventName(fnArg),
                 twice |-> sanitizeEventName(sanitizeEventName(fnArg))]
    /\ UNCHANGED <<world, fnArg>>

SpecSanitize == InitSanitize /\ [][ApplySanitize]_vars

InitMerge ==
    /\ Idle
    /\ fnArg \in [defaults : MergeObjects, overrides : MergeObjects]
    /\ fnRes = [done |-> FALSE]

\* mergeConfig(defaults, overrides)
ApplyMerge ==
    /\ ~fnRes.done
    /\ fnRes' = [done |-> TRUE, merged |-> mergeConfig(fnArg.defaults, fnArg.overrides)]
    /\ UNCHANGED <<world, fnArg>>

SpecMerge == InitMerge /\ [][ApplyMerge]_vars

(***************************************************************************)
(* Properties                                                              *)
(***************************************************************************)
Helpers == 1..Len(helpers)
CallIds == [i \in 1..Len(calls) |-> i]
TrackedCalls == [k \in 1..Len(tracked) |-> tracked[k].call]

\* the logEvent calls made on helper h before its gate was READY, in order
PreReadyCalls(h) ==
    SelectSeq(CallIds, LAMBDA i : calls[i].helper = h /\ calls[i].gate = "NOT_READY")

\* the track invocations for those calls, in the order of invocation
PreReadyDelivered(h) ==
    SelectSeq(TrackedCalls, LAMBDA i : calls[i].helper = h /\ calls[i].gate = "NOT_READY")

\* C1 as stated: once the gate is READY, track has been invoked for every event
\* logged before readiness, in the order they were logged, none dropped.
C1_AllQueuedDelivered ==
    \A h \in Helpers :
        Gate(helpers[h]) = "READY" => PreReadyDelivered(h) = PreReadyCalls(h)

\* C1 amended: once the gate is READY, track has been invoked, in the order they
\* were logged, for exactly the events logged before readiness whose name is a
\* string; an event whose name is no string is dropped by the drain.
C1_QueuedStringsDeliveredInOrder ==
    \A h \in Helpers :
        Gate(helpers[h]) = "READY" =>
            PreReadyDelivered(h) =
                SelectSeq(PreReadyCalls(h), LAMBDA i : calls[i].event.t = "string")

C1_Witness ==
    \E h \in Helpers :
        /\ Gate(helpers[h]) = "READY"
        /\ helpers[h].attempts >= 1
        /\ Len(PreReadyCalls(h)) >= 2
        /\ PreReadyDelivered(h) = PreReadyCalls(h)

\* C2: each logEvent call leads to at most one track invocation, and no event
\* that was delivered is still in a queue.
C2_AtMostOnce ==
    /\ \A k1, k2 \in 1..Len(tracked) : tracked[k1].call = tracked[k2].call => k1 = k2
    /\ \A h \in Helpers : \A q \in 1..Len(helpers[h].eventQueue) :
          \A k \in 1..Len(tracked) : tracked[k].call # helpers[h].eventQueue[q].call

C2_Witness ==
    \E k \in 1..Len(tracked) :
        /\ calls[tracked[k].call].gate = "NOT_READY"
        /\ helpers[calls[tracked[k].call].helper].eventQueue = <<>>

\* C3: every track invocation is made by a helper whose gate is READY, after
\* one of its presence checks (at construction or on a poll) has succeeded.
C3_TrackOnlyWhenReady ==
    \A k \in 1..Len(tracked) :
        /\ tracked[k].ready
        /\ \E c \in 1..Len(helpers[calls[tracked[k].call].helper].checks) :
              helpers[calls[tracked[k].call].helper].checks[c]

C3_Witness ==
    \E k \in 1..Len(tracked) :
        /\ tracked[k].ready
        /\ calls[tracked[k].call].gate = "READY"

IsClean(name) ==
    /\ \A i \in 1..Len(name) : name[i] \in Allowed
    /\ \A i \in 1..Len(name) - 1 : ~(name[i] = "_" /\ name[i + 1] = "_")
    /\ name # <<>> => name[1] # "_" /\ name[Len(name)] # "_"

\* C4 as stated: every name forwarded to the collector has only lowercase ascii
\* letters, digits and underscores, no two consecutive underscores and no
\* leading or trailing underscore; 'Form Submit!!' is forwarded as 'form_submit'.
C4_ForwardedNamesClean ==
    \A k \in 1..Len(tracked) :
        /\ IsClean(tracked[k].name)
        /\ calls[tracked[k].call].event = FormSubmit =>
              tracked[k].name = <<"f","o","r","m","_","s","u","b","m","i","t">>

\* the construction check and every poll so far found the collector absent, and
\* the polls the configuration asks for (at least one) have run
Exhausted(self) ==
    /\ \A c \in 1..Len(self.checks) : ~self.checks[c]
    /\ self.attempts >= 1
    /\ IsNumeric(Get(self.config, "retryAttempts"))
    /\ self.attempts >= ToNumber(Get(self.config, "retryAttempts"))

C6_LogEventNeverThrows ==
    /\ \A i \in 1..Len(calls) : ~calls[i].threw
    /\ \A k \in 1..Len(tracked) : tracked[k].threw =>
          \A h \in Helpers : \A q \in 1..Len(helpers[h].eventQueue) :
              helpers[h].eventQueue[q].call # tracked[k].call

C6_Witness ==
    /\ \E k \in 1..Len(tracked) :
          tracked[k].threw /\ calls[tracked[k].call].gate = "READY"
    /\ \E i \in 1..Len(calls) : calls[i].event.t # "string" /\ calls[i].gate = "READY"

\* C7 as stated: at most one helper is ever constructed and every init call
\* returns that one instance.
C7_OneInstanceReturnedByEveryInit ==
    /\ Len(helpers) <= 1
    /\ \A i \in 1..Len(initReturns) :
          ~initReturns[i].threw /\ initReturns[i].value = 1

RECURSIVE MergeLaw(_, _, _)
MergeLaw(d, u, r) ==
    /\ r.t = "object"
    /\ \A k \in DOMAIN OwnProps(d) \ DOMAIN OwnProps(u) :
          k \in DOMAIN r.v /\ r.v[k] = OwnProps(d)[k]
    /\ \A k \in DOMAIN OwnProps(u) :
          /\ k \in DOMAIN r.v
          /\ IF u.v[k].t = "object"
             THEN MergeLaw(IF Get(d, k).t = "object" THEN Get(d, k) ELSE EmptyObj,
                           u.v[k], r.v[k])
             ELSE r.v[k] = u.v[k]

\* C8 as stated: merge keeps every default key the override does not mention,
\* at every level; an override value that is a scalar (null included) or an
\* array replaces the default; only non-array objects are merged recursively.
C8_MergeKeepsDefaultsReplacesScalars ==
    fnRes.done => MergeLaw(fnArg.defaults, fnArg.overrides, fnRes.merged)

\* C9: sanitizing twice gives what sanitizing once gives, and the output has
\* only characters of [a-z0-9_] and no doubled underscore.
C9_SanitizeIdempotent ==
    fnRes.done =>
        /\ fnRes.twice = fnRes.once
        /\ \A i \in 1..Len(fnRes.once) : fnRes.once[i] \in Allowed
        /\ \A i \in 1..Len(fnRes.once) - 1 :
              ~(fnRes.once[i] = "_" /\ fnRes.once[i + 1] = "_")

C9_Witness ==
    /\ fnRes.done
    /\ fnArg = <<"A", " ", "!">>
    /\ fnRes.once = <<"a", "_">>

\* the source is enabled in the configuration of the helper
Enabled(self, adapter) ==
    Truthy(Get(Get(Get(self.config, "tracking"), adapter), "enabled"))

\* C10 as stated: once the gate is READY, every enabled adapter whose own setup
\* does not fail is installed, whatever happened to the setup of another.
C10_SetupFailuresIsolated ==
    \A h \in Helpers :
        Gate(helpers[h]) = "READY" =>
            \A i \in 1..Len(AdapterOrder) :
                (Enabled(helpers[h], AdapterOrder[i])
                    /\ ~setupAdapter(helpers[h], AdapterOrder[i], page).threw)
                    => \E j \in 1..Len(helpers[h].installed) :
                          helpers[h].installed[j] = AdapterOrder[i]

\* the thresholds of the scroll events logged so far, in the order of the calls
ScrollEvents ==
    LET sc == SelectSeq(calls, LAMBDA c : c.source = "scroll")
    IN  [k \in 1..Len(sc) |-> sc[k].properties.v.percentage.v]

\* C11 as stated: whatever the configured thresholds and the scroll positions,
\* no threshold is logged twice and the scroll events are logged in ascending
\* order of their threshold.
C11_ScrollEventsOnceAscending ==
    \A j, k \in 1..Len(ScrollEvents) : j < k => ScrollEvents[j] < ScrollEvents[k]

\* C12: every track invocation gets the properties of the logEvent call it
\* serves with the key timestamp set to the clock's time at the moment of the
\* invocation, also when the caller brought a timestamp and also when the event
\* was queued at an earlier time.
C12_TimestampIsDispatchTime ==
    [][\A k \in (Len(tracked) + 1)..Len(tracked') :
          LET given == calls'[tracked'[k].call].properties.v
          IN  tracked'[k].properties =
                Obj([key \in DOMAIN given \cup {"timestamp"} |->
                        IF key = "timestamp" THEN toISOString(now) ELSE given[key]])]_vars

C12_Witness ==
    \E k \in 1..Len(tracked) :
        LET c == calls[tracked[k].call]
        IN  /\ c.gate = "NOT_READY"
            /\ "timestamp" \in DOMAIN c.properties.v
            /\ tracked[k].properties.v.timestamp # c.properties.v.timestamp
            /\ tracked[k].properties.v.timestamp # toISOString(c.time)
            /\ tracked[k].properties.v.form_id = c.properties.v.form_id

\* C13 as stated: a gate runs at most retryAttempts poll checks, for every
\* configured retryAttempts >= 0, and its interval timer is no longer active
\* once the gate is READY or the attempts are used up.
C13_AtMostRetryAttemptsPolls ==
    \A h \in Helpers :
        LET maxAttempts == Get(helpers[h].config, "retryAttempts")
        IN  /\ helpers[h].attempts <= ToNumber(maxAttempts)
            /\ (\/ helpers[h].initialized
                \/ (helpers[h].attempts >= 1 /\ helpers[h].attempts >= ToNumber(maxAttempts)))
                  => helpers[h].checkInterval # "active"

\* C14 as stated: no exception leaves a message listener, whatever the message
\* and the document.
C14_MessageFailuresCaught == "message" \notin uncaught

\* the adapter is among those that setupEventListeners installed
Installed(self, adapter) ==
    \E j \in 1..Len(self.installed) : self.installed[j] = adapter

\* C15 as stated: once the gate is READY, an adapter is installed exactly when
\* it is enabled in the effective configuration, and an override that only
\* switches adapters on or off leaves every default event name in place.
C15_InstalledIffEnabled ==
    \A h \in Helpers :
        Gate(helpers[h]) = "READY" =>
            \A i \in 1..Len(AdapterOrder) :
                /\ Installed(helpers[h], AdapterOrder[i]) <=> Enabled(helpers[h], AdapterOrder[i])
                /\ EventNameOf(helpers[h], AdapterOrder[i])
                      = EventNameOf([config |-> config], AdapterOrder[i])

\* the name that the element and the default stand for: the element's override
\* attribute when there is an element and it carries a non-empty one
ResolvedName(element, default) ==
    IF /\ element.t = "object"
       /\ "umamiEvent" \in DOMAIN element.v.dataset.v
       /\ element.v.dataset.v.umamiEvent.v # <<>>
    THEN element.v.dataset.v.umamiEvent
    ELSE default

\* C16: the name of a form event is the one that the form's wrapper, as it was
\* when the adapters were installed, and the default stand for; the name of a
\* widget event is the one that the widget's embed, as it is when the message
\* arrives, and the default stand for.
C16_NameResolvedAtSetupOrPerMessage ==
    \A i \in 1..Len(calls) :
        LET c == calls[i]
            self == helpers[c.helper]
        IN  CASE c.source = "forms" ->
                    c.event = ResolvedName(self.setupDocument.forms[1].closest,
                                           EventNameOf(self, "forms"))
              [] c.source = "typeform" ->
                    c.event = ResolvedName(Get(c.document.typeform, "closest"),
                                           EventNameOf(self, "typeform"))
              [] c.source = "calendly" ->
                    c.event = ResolvedName(c.document.calendly, EventNameOf(self, "calendly"))
              [] c.source = "hubspot" ->
                    c.event = ResolvedName(c.document.hubspot, EventNameOf(self, "hubspot"))
              [] OTHER -> TRUE

C16_Witness ==
    /\ \E i \in 1..Len(calls) :
          /\ calls[i].source = "forms"
          /\ calls[i].event = Cta
          /\ calls[i].document.forms[1].closest = Element(Buy)
    /\ \E i \in 1..Len(calls) :
          /\ calls[i].source = "typeform"
          /\ calls[i].event = Buy
          /\ helpers[calls[i].helper].setupDocument.typeform = Widgets(Element(Undef)).typeform

\* the anchor has the scheme tel: or mailto:
IsContactLink(a) ==
    a.href.t = "string" /\ (StartsWith(a.href.v, Tel) \/ StartsWith(a.href.v, Mailto))

\* what the outbound setup wrote on anchor i
OutboundMarks(self, i) == {r \in self.annotated : r.adapter = "outbound" /\ r.index = i}

\* C17 as stated: once the outbound adapter is enabled and the gate is READY, no
\* anchor of the page's host and no tel: or mailto: anchor is annotated, and
\* every other anchor of the document is annotated with the resolved event name
\* and its url.
C17_OutboundAnnotatesExactlyOtherHosts ==
    \A h \in Helpers :
        (Gate(helpers[h]) = "READY" /\ Enabled(helpers[h], "outbound")) =>
            \A i \in 1..Len(page.anchors) :
                LET a == page.anchors[i]
                IN  IF IsContactLink(a) \/ a.host = LocationHost
                    THEN OutboundMarks(helpers[h], i) = {}
                    ELSE OutboundMarks(helpers[h], i) =
                            {[adapter |-> "outbound", index |-> i,
                              event |-> ResolvedName(Element(a.umamiEvent),
                                                     EventNameOf(helpers[h], "outbound")),
                              detail |-> a.href]}

\* how often the adapter was installed
TimesInstalled(self, adapter) ==
    Cardinality({j \in 1..Len(self.installed) : self.installed[j] = adapter})

\* C18 as stated: a gate that is READY has drained its queue exactly once and
\* has installed every enabled adapter exactly once, and no adapter was
\* installed yet when an event of the queue was dispatched; a gate that is not
\* READY has neither drained nor installed.
C18_DrainThenInstallOnce ==
    /\ \A h \in Helpers :
          IF Gate(helpers[h]) = "READY"
          THEN /\ helpers[h].drains = 1
               /\ helpers[h].eventQueue = <<>>
               /\ \A i \in 1..Len(AdapterOrder) :
                     TimesInstalled(helpers[h], AdapterOrder[i])
                        = IF Enabled(helpers[h], AdapterOrder[i]) THEN 1 ELSE 0
          ELSE helpers[h].drains = 0 /\ helpers[h].installed = <<>>
    /\ \A k \in 1..Len(tracked) :
          calls[tracked[k].call].gate = "NOT_READY" => tracked[k].installed = <<>>

\* C19 as stated: a logEvent call appends to the queue only while the gate is
\* NOT_READY, never once it is READY or FAILED, and the queue of a READY gate
\* is empty.
C19_EnqueueOnlyWhileNotReady ==
    /\ \A i \in 1..Len(calls) : calls[i].queued => calls[i].gate = "NOT_READY"
    /\ \A h \in Helpers : Gate(helpers[h]) = "READY" => helpers[h].eventQueue = <<>>

\* the positions of the track invocations made for call i
Deliveries(i) == {k \in 1..Len(tracked) : tracked[k].call = i}

\* the dispatch of call i failed: its name could not be sanitized or track threw
DispatchFailed(i) ==
    calls[i].event.t # "string" \/ \E k \in Deliveries(i) : tracked[k].threw

\* C20: when the dispatch of an event fails, during a drain or on a direct
\* call, that event is in no queue and track is not invoked for it again, and
\* the drain goes on: every event with a string name that was queued after it
\* is dispatched once, after it.
C20_FailureDropsOnlyThatEvent ==
    \A h \in Helpers : \A i \in 1..Len(calls) :
        (Gate(helpers[h]) = "READY" /\ calls[i].helper = h /\ DispatchFailed(i)) =>
            /\ Cardinality(Deliveries(i)) <= 1
            /\ \A q \in 1..Len(helpers[h].eventQueue) : helpers[h].eventQueue[q].call # i
            /\ \A j \in (i + 1)..Len(calls) :
                  (calls[j].helper = h /\ calls[j].gate = "NOT_READY"
                        /\ calls[j].event.t = "string") =>
                      /\ Cardinality(Deliveries(j)) = 1
                      /\ \A k \in Deliveries(i), l \in Deliveries(j) : k < l

C20_Witness ==
    /\ Len(calls) = 2
    /\ calls[1].gate = "NOT_READY" /\ calls[2].gate = "NOT_READY"
    /\ Len(tracked) = 2
    /\ tracked[1].call = 1 /\ tracked[1].threw
    /\ tracked[2].call = 2 /\ ~tracked[2].threw

\* the lowest of the thresholds configured for the scroll adapter of a helper
LowestThreshold(self) ==
    LET thresholds == Get(Get(Get(self.config, "tracking"), "scroll"), "thresholds").v
    IN  CHOOSE t \in {thresholds[i].v : i \in 1..Len(thresholds)} :
           \A i \in 1..Len(thresholds) : t <= thresholds[i].v

\* C21 as stated: whatever the configured thresholds, when the deferred check
\* of the scroll adapter runs while the page is scrolled past the lowest
\* configured threshold, it does not attach the scroll handler and no event is
\* logged by it.
C21_DeferredCheckComparesLowestThreshold ==
    [][\A h \in 1..Len(helpers) :
          (/\ helpers[h].scrollTimer = "pending"
           /\ helpers'[h].scrollTimer = "fired"
           /\ scrolled > 10 * LowestThreshold(helpers[h]))
          => /\ helpers'[h].scrollEventAttached = helpers[h].scrollEventAttached
             /\ calls' = calls]_vars

\* the thresholds configured for the scroll adapter of a helper, in the order
\* of the configured array
Thresholds(self) == Get(Get(Get(self.config, "tracking"), "scroll"), "thresholds").v

\* the thresholds a pass at the rounded percentage p has to log: those that p
\* has reached and that have not fired, in the order of the configured array
Due(self, p) ==
    LET due == SelectSeq(Thresholds(self), LAMBDA t : t.v <= p /\ t \notin self.reached)
    IN  [k \in 1..Len(due) |-> due[k].v]

\* the percentage of the pass of handleScroll that this step runs for helper
\* h, or -1 when the step runs none: the scroll event with the handler
\* attached, or the deferred check that attaches it
PassPercentage(h) ==
    IF scrolled' # scrolled /\ h = Len(helpers) /\ helpers'[h].scrollEventAttached
    THEN Round(scrolled')
    ELSE IF /\ helpers[h].scrollTimer = "pending" /\ helpers'[h].scrollTimer = "fired"
            /\ ~helpers[h].scrollEventAttached /\ helpers'[h].scrollEventAttached
    THEN Round(scrolled)
    ELSE -1

\* the percentages logged by the calls this step adds
NewScrollEvents ==
    [k \in 1..(Len(calls') - Len(calls)) |-> calls'[Len(calls) + k].properties.v.percentage.v]

\* C22: one pass of handleScroll at the rounded percentage p logs one event
\* for every configured threshold <= p that has not fired yet, in the order of
\* the configured array, and adds these thresholds to the fired set; so the
\* fired set always holds, with a threshold, every configured threshold below
\* it (it is the set of the thresholds <= the highest percentage handled).
\* With [25, 50, 75] and a scroll to 80% this is 25, 50, 75 in one pass.
C22_PassEmitsEveryDueThreshold ==
    /\ [](\A h \in 1..Len(helpers) : \A t \in helpers[h].reached :
             \A i \in 1..Len(Thresholds(helpers[h])) :
                Thresholds(helpers[h])[i].v <= t.v
                => Thresholds(helpers[h])[i] \in helpers[h].reached)
    /\ [][\A h \in 1..Len(helpers) :
             PassPercentage(h) >= 0
             => /\ NewScrollEvents = Due(helpers[h], PassPercentage(h))
                /\ helpers'[h].reached =
                      helpers[h].reached
                      \cup {Thresholds(helpers[h])[i] : i \in
                               {j \in 1..Len(Thresholds(helpers[h])) :
                                  Thresholds(helpers[h])[j].v <= PassPercentage(h)}}]_vars

\* the thresholds 25, 50, 75 were logged in this order by the one pass that a
\* scroll from the top to 80% runs
C22_Witness ==
    /\ scrolled = 800
    /\ Len(calls) = 3
    /\ ScrollEvents = <<25, 50, 75>>
    /\ \A k \in 1..3 : calls[k].batch = 0
    /\ \E h \in 1..Len(helpers) :
          /\ Thresholds(helpers[h]) = <<Num(25), Num(50), Num(75)>>
          /\ helpers[h].reached = {Num(25), Num(50), Num(75)}

\* C23 as stated: the configuration of a helper never changes once it is
\* constructed, and an init call that runs after the grace timer's callback or
\* after an earlier init call returns the instance that exists already and
\* leaves the helpers (their configuration and installed adapters) and the
\* factory as they are.
C23_LateInitReturnsExistingInstance ==
    [][/\ \A h \in 1..Len(helpers) : helpers'[h].config = helpers[h].config
       /\ (factory.initialized /\ Len(initReturns') = Len(initReturns) + 1)
          => /\ ~initReturns'[Len(initReturns')].threw
             /\ initReturns'[Len(initReturns')].value \in 1..Len(helpers)
             /\ helpers' = helpers
             /\ factory' = factory]_vars

====
